---- MODULE Spec2Model ----
(***************************************************************************)
(* Fire-risk expert system (src/app.py): the rule store REGLAS, the        *)
(* inference engine inferir_riesgo, the SQLite diagnosis log and the two   *)
(* Flask routes, index ("/") and eliminar_historial.                        *)
(*                                                                         *)
(* app.run serves requests on worker threads (Hilos); each thread runs one *)
(* handler at a time and pc[t] is its position in that handler. Readings   *)
(* and thresholds are floats in the program and small integers here.       *)
(***************************************************************************)
EXTENDS Integers, Sequences, FiniteSets, TLC

VARIABLES
    REGLAS,         \* the global rule list (app.py line 11)
    pc,             \* position of each thread in its handler
    peticion,       \* the request each thread is serving
    datos_entrada,  \* index()/inferir_riesgo: the dict of readings
    hechos,         \* inferir_riesgo: the fact dict built at lines 44-48
    iter,           \* inferir_riesgo: the list object the for loop iterates
    idx,            \* inferir_riesgo: how many rules the loop has taken
    evaluadas,      \* history: the rules the loop has evaluated, in order
    resultado,      \* the dict inferir_riesgo returned
    respuesta,      \* the response of the handler
    db,             \* rows of table diagnosticos, in insertion order
    sig_id,         \* next AUTOINCREMENT id of table diagnosticos
    insertados,     \* history: readings and outcome of each POST that completed since the last purge
    session,        \* session['last_result'] / session['last_inputs']
    cargadas,       \* history: the lists finished loads have produced
    archivo,        \* the file reglas_incendios.json as it is on disk now
    guardado,       \* history: how the INSERT of each thread's request ended
    registros,      \* index(): what obtener_diagnosticos returned
    total_registros,\* index(): what contar_registros returned
    tope            \* the model stops taking POSTs after this many inserts

vars == <<REGLAS, pc, peticion, datos_entrada, hechos, iter, idx, evaluadas,
          resultado, respuesta, db, sig_id, insertados, session, cargadas,
          archivo, guardado, registros, total_registros, tope>>

----------------------------------------------------------------------------
(* Bounds *)

MaxLectura == 2         \* readings range over 0..MaxLectura
MaxReglas == 2          \* longest rule list the engine is run on
MaxCondiciones == 2     \* most conditions a rule list declares in all

(* Program constants *)

LIMITE == 10            \* LIMIT 10 of obtener_diagnosticos

----------------------------------------------------------------------------
(* Data *)

Hilos == {"h1", "h2"}

ClavesHechos == {"temperatura", "humedad", "viento"}

Lecturas == 0 .. MaxLectura

Ninguno == [nivel |-> "None", accion |-> "None",
            justificacion |-> [texto |-> "None", id |-> 0, nombre |-> "None"]]

\* inferir_riesgo, lines 71-75
ResultadoPorDefectoNulo ==
    [nivel |-> "None",
     accion |-> "El nivel de riesgo no se ajusta a las reglas existentes. Mantener monitoreo.",
     justificacion |-> [texto |-> "Ninguna regla de la Base de Conocimiento cumplio todas las condiciones.",
                        id |-> 0, nombre |-> "None"]]

ResultadoPorDefecto ==
    [nivel |-> "NO CLASIFICADO",
     accion |-> "El nivel de riesgo no se ajusta a las reglas existentes. Mantener monitoreo.",
     justificacion |-> [texto |-> "Ninguna regla de la Base de Conocimiento cumplio todas las condiciones.",
                        id |-> 0, nombre |-> "None"]]

\* inferir_riesgo, lines 63-67
ResultadoDeRegla(regla) ==
    [nivel |-> regla.resultado,
     accion |-> regla.accion,
     justificacion |-> [texto |-> "Se activo la regla ID", id |-> regla.id,
                        nombre |-> regla.nombre]]

----------------------------------------------------------------------------
(* evaluar_condicion, lines 26-38 *)

evaluar_condicion_permisiva(valor_hecho, operador, valor_regla) ==
    IF operador = ">=" THEN valor_hecho >= valor_regla
    ELSE IF operador = ">" THEN valor_hecho > valor_regla
    ELSE IF operador = "<=" THEN valor_hecho <= valor_regla
    ELSE IF operador = "<" THEN valor_hecho < valor_regla
    ELSE IF operador = "==" THEN valor_hecho = valor_regla
    ELSE TRUE

evaluar_condicion(valor_hecho, operador, valor_regla) ==
    IF operador = ">=" THEN valor_hecho >= valor_regla
    ELSE IF operador = ">" THEN valor_hecho > valor_regla
    ELSE IF operador = "<=" THEN valor_hecho <= valor_regla
    ELSE IF operador = "<" THEN valor_hecho < valor_regla
    ELSE IF operador = "==" THEN valor_hecho = valor_regla
    ELSE FALSE

(* inferir_riesgo, lines 52-61: one iteration of the loop over the rules *)

\* line 53
total_condiciones(regla) == Cardinality(DOMAIN regla.condiciones)

\* lines 56-59
condiciones_cumplidas(regla, h) ==
    Cardinality({variable \in DOMAIN regla.condiciones :
                    /\ variable \in DOMAIN h
                    /\ evaluar_condicion(h[variable],
                                         regla.condiciones[variable].operador,
                                         regla.condiciones[variable].valor)})

\* line 61
ReglaCumplidaSobreEvaluadas(regla, h) ==
    condiciones_cumplidas(regla, h)
        = Cardinality(DOMAIN regla.condiciones \cap DOMAIN h)

ReglaCumplida(regla, h) ==
    condiciones_cumplidas(regla, h) = total_condiciones(regla)

\* the subscripts of lines 53, 58 and 64-66 that raise KeyError
FaltaCondiciones(regla) == "condiciones" \notin DOMAIN regla

FaltaEnCondicion(regla, h) ==
    \E variable \in DOMAIN regla.condiciones \cap DOMAIN h :
        ~ ({"operador", "valor"} \subseteq DOMAIN regla.condiciones[variable])

FaltaEnResultado(regla) ==
    ~ ({"resultado", "accion", "id", "nombre"} \subseteq DOMAIN regla)

\* lines 44-48: every reading is read with .get(clave, 0)
ConstruirHechos(datos) ==
    [clave \in ClavesHechos |->
        IF clave \in DOMAIN datos THEN datos[clave] ELSE 0]

----------------------------------------------------------------------------
(* The rule lists the engine is run on: every list of at most MaxReglas    *)
(* rules that declares at most MaxCondiciones conditions in all, each rule *)
(* with its five fields and conditions over the variables VarsRegla        *)
(* ("presion" is no key of hechos) with any operator of Operadores ("!="   *)
(* is none of the five evaluar_condicion knows).                           *)

VarsRegla == {"temperatura", "viento", "presion"}

OperadoresConocidos == {">=", ">", "<=", "<", "=="}

Operadores == OperadoresConocidos \cup {"!="}

Umbrales == {1}

Nombres == <<"R1", "R2", "R3", "R4", "R5">>

Niveles == <<"EXTREMO", "ALTO", "MEDIO", "BAJO", "MINIMO">>

Acciones == <<"A1", "A2", "A3", "A4", "A5">>

CondicionesPosibles == [operador : Operadores, valor : Umbrales]

\* the condition mappings with exactly c conditions
MapasDeCondiciones(c) ==
    UNION {[S -> CondicionesPosibles] :
              S \in {T \in SUBSET VarsRegla : Cardinality(T) = c}}

ReglaEn(k, conds) ==
    [id |-> k, nombre |-> Nombres[k], condiciones |-> conds,
     resultado |-> Niveles[k], accion |-> Acciones[k]]

Min(a, b) == IF a <= b THEN a ELSE b

Menor(S) == CHOOSE k \in S : \A j \in S : k <= j

\* the lists of n rules with at most c conditions in all
RECURSIVE ListasDe(_, _)
ListasDe(n, c) ==
    IF n = 0 THEN {<< >>}
    ELSE UNION {{Append(l, ReglaEn(n, m)) :
                    l \in ListasDe(n - 1, c - k), m \in MapasDeCondiciones(k)} :
                k \in 0 .. Min(c, Cardinality(VarsRegla))}

ListasDeReglas == UNION {ListasDe(n, MaxCondiciones) : n \in 0 .. MaxReglas}

\* the dicts of readings the engine is called with; a missing key reads as 0
DatosPosibles ==
    UNION {[S -> Lecturas] : S \in SUBSET {"temperatura", "viento"}}

----------------------------------------------------------------------------
(* inferir_riesgo, lines 40-75 *)

\* lines 44-51: build hechos and bind the loop to the list REGLAS names now
IniciarInferencia(t) ==
    /\ pc[t] = "inferir"
    /\ hechos' = [hechos EXCEPT ![t] = ConstruirHechos(datos_entrada[t])]
    /\ iter' = [iter EXCEPT ![t] = REGLAS]
    /\ idx' = [idx EXCEPT ![t] = 0]
    /\ evaluadas' = [evaluadas EXCEPT ![t] = << >>]
    /\ pc' = [pc EXCEPT ![t] = "reglas"]
    /\ UNCHANGED <<REGLAS, peticion, datos_entrada, resultado, respuesta,
                   db, sig_id, insertados, session, cargadas, archivo,
                   guardado, registros, total_registros, tope>>

\* line 51: the rule the loop takes next from the list it was bound to
ReglaSiguienteInversa(t) == iter[t][Len(iter[t]) - idx[t]]

ReglaSiguienteGlobal(t) ==
    IF idx[t] < Len(REGLAS) THEN REGLAS[idx[t] + 1] ELSE iter[t][idx[t] + 1]

ReglaSiguiente(t) == iter[t][idx[t] + 1]

QuedanReglas(t) == idx[t] < Len(iter[t])

\* lines 51-67: one iteration; a full match returns at once
EvaluarRegla(t) ==
    /\ pc[t] = "reglas"
    /\ QuedanReglas(t)
    /\ LET regla == ReglaSiguiente(t) IN
        /\ idx' = [idx EXCEPT ![t] = @ + 1]
        /\ evaluadas' = [evaluadas EXCEPT ![t] = Append(@, regla)]
        /\ IF \/ FaltaCondiciones(regla)
              \/ FaltaEnCondicion(regla, hechos[t])
              \/ ReglaCumplida(regla, hechos[t]) /\ FaltaEnResultado(regla)
           THEN \* KeyError, not caught anywhere
                /\ pc' = [pc EXCEPT ![t] = "fin"]
                /\ respuesta' = [respuesta EXCEPT ![t] = "500 KeyError"]
                /\ UNCHANGED resultado
           ELSE IF ReglaCumplida(regla, hechos[t])
           THEN /\ resultado' = [resultado EXCEPT ![t] = ResultadoDeRegla(regla)]
                /\ pc' = [pc EXCEPT ![t] = "devuelto"]
                /\ UNCHANGED respuesta
           ELSE UNCHANGED <<resultado, pc, respuesta>>
    /\ UNCHANGED <<REGLAS, peticion, datos_entrada, hechos, iter,
                   db, sig_id, insertados, session, cargadas, archivo,
                   guardado, registros, total_registros, tope>>

\* lines 70-75: the loop ran out of rules
SinCoincidencia(t) ==
    /\ pc[t] = "reglas"
    /\ ~ QuedanReglas(t)
    /\ resultado' = [resultado EXCEPT ![t] = ResultadoPorDefecto]
    /\ pc' = [pc EXCEPT ![t] = "devuelto"]
    /\ UNCHANGED <<REGLAS, peticion, datos_entrada, hechos, iter, idx,
                   evaluadas, respuesta, db, sig_id, insertados, session,
                   cargadas, archivo, guardado, registros, total_registros,
                   tope>>

----------------------------------------------------------------------------
(* The engine alone: inferir_riesgo called once, as                        *)
(* ejecutar_pruebas_de_inferencia calls it, on every rule list and every   *)
(* dict of readings of the bounds.                                         *)

SinPeticion == [ruta |-> "None", metodo |-> "None", form |-> << >>]

InitComun ==
    /\ peticion = [t \in Hilos |-> SinPeticion]
    /\ hechos = [t \in Hilos |-> << >>]
    /\ iter = [t \in Hilos |-> << >>]
    /\ idx = [t \in Hilos |-> 0]
    /\ evaluadas = [t \in Hilos |-> << >>]
    /\ resultado = [t \in Hilos |-> Ninguno]
    /\ respuesta = [t \in Hilos |-> "None"]
    /\ db = << >>
    /\ sig_id = 1
    /\ insertados = << >>
    /\ session = [last_result |-> Ninguno, last_inputs |-> << >>]
    /\ guardado = [t \in Hilos |-> "None"]
    /\ registros = [t \in Hilos |-> << >>]
    /\ total_registros = [t \in Hilos |-> 0]

InitMotor ==
    /\ InitComun
    /\ REGLAS \in ListasDeReglas
    /\ cargadas = {REGLAS}
    /\ archivo = [existe |-> TRUE, reglas |-> REGLAS]
    /\ tope = 0
    /\ pc = [t \in Hilos |-> IF t = "h1" THEN "inferir" ELSE "libre"]
    /\ \E d \in DatosPosibles :
          datos_entrada = [t \in Hilos |-> IF t = "h1" THEN d ELSE << >>]

NextMotor ==
    \/ IniciarInferencia("h1")
    \/ EvaluarRegla("h1")
    \/ SinCoincidencia("h1")

SpecMotor == InitMotor /\ [][NextMotor]_vars

----------------------------------------------------------------------------
(* The web application: requests, the rule file and the diagnosis table.   *)

MaxInserciones == 2     \* inserts after which the model takes no more POSTs
MaxExceso == 1          \* inserts beyond LIMITE the history model allows

Num(n) == [tipo |-> "num", v |-> n]

Texto == [tipo |-> "texto", v |-> 0]

\* request.form of a POST: a submitted field is numeric text or other text;
\* a field that was not submitted is no key of the form
FormValido1 == [temperatura |-> Num(1), humedad |-> Num(1), viento |-> Num(0)]

FormValido2 == [temperatura |-> Num(2), humedad |-> Num(0), viento |-> Num(0)]

FormTexto == [temperatura |-> Num(1), humedad |-> Texto, viento |-> Num(0)]

FormAusente == [temperatura |-> Num(1), humedad |-> Num(1)]

FormAusenteYTexto == [humedad |-> Texto, viento |-> Num(0)]

Post(form) == [ruta |-> "/", metodo |-> "POST", form |-> form]

Get == [ruta |-> "/", metodo |-> "GET", form |-> << >>]

Eliminar == [ruta |-> "/eliminar_historial", metodo |-> "POST", form |-> << >>]

Peticiones ==
    {Post(FormValido1), Post(FormTexto), Post(FormAusente),
     Post(FormAusenteYTexto), Get, Eliminar}

PeticionesHistorial == {Post(FormValido1), Post(FormValido2), Get, Eliminar}

\* contents reglas_incendios.json may have
Cond(op, n) == [operador |-> op, valor |-> n]

ReglasA ==
    <<ReglaEn(1, [temperatura |-> Cond(">=", 2), humedad |-> Cond("<=", 0)]),
      ReglaEn(2, [temperatura |-> Cond(">=", 1)]),
      ReglaEn(3, [viento |-> Cond(">=", 0)])>>

ReglasB ==
    <<ReglaEn(1, [viento |-> Cond(">", 0)]),
      ReglaEn(2, [humedad |-> Cond("<", 1)])>>

\* a rule with no condition and no "accion"
ReglasIncompletas ==
    <<[id |-> 1, nombre |-> "R1", condiciones |-> << >>, resultado |-> "EXTREMO"]>>

NoEncontrado == [existe |-> FALSE, reglas |-> << >>]

Archivo(reglas) == [existe |-> TRUE, reglas |-> reglas]

Archivos ==
    {NoEncontrado, Archivo(ReglasA), Archivo(ReglasB), Archivo(ReglasIncompletas)}

ArchivosHistorial == {Archivo(ReglasB)}

EsPost(p) == p.ruta = "/" /\ p.metodo = "POST"

\* POSTs being served
PostEnCurso == {u \in Hilos : pc[u] # "libre" /\ EsPost(peticion[u])}

resto == <<hechos, iter, idx, evaluadas, registros, total_registros, tope>>

\* a request arrives at an idle thread (Flask dispatches it to its route)
Recibir(t, p) ==
    /\ pc[t] = "libre"
    /\ EsPost(p) => sig_id - 1 + Cardinality(PostEnCurso) < tope
    /\ peticion' = [peticion EXCEPT ![t] = p]
    /\ pc' = [pc EXCEPT ![t] = IF p.ruta = "/" THEN "cargar" ELSE "eliminar"]
    /\ UNCHANGED <<REGLAS, datos_entrada, resultado, respuesta, db, sig_id,
                   insertados, session, cargadas, archivo, guardado, resto>>

\* the rule file is replaced, edited or removed on disk
CambiarArchivo(a) ==
    /\ a # archivo
    /\ archivo' = a
    /\ UNCHANGED <<REGLAS, pc, peticion, datos_entrada, resultado, respuesta,
                   db, sig_id, insertados, session, cargadas, guardado, resto>>

(* cargar_reglas, lines 16-24 *)

ReglasCargadasSinVaciar(arch) == IF arch.existe THEN arch.reglas ELSE REGLAS

\* line 21 binds REGLAS to the parsed list; lines 22-24 to a new empty list
ReglasCargadas(arch) == IF arch.existe THEN arch.reglas ELSE << >>

\* index(), line 154
cargar_reglas(t) ==
    /\ pc[t] = "cargar"
    /\ REGLAS' = ReglasCargadas(archivo)
    /\ cargadas' = cargadas \cup {REGLAS'}
    /\ pc' = [pc EXCEPT ![t] = IF peticion[t].metodo = "POST" THEN "post" ELSE "get"]
    /\ UNCHANGED <<peticion, datos_entrada, resultado, respuesta, db, sig_id,
                   insertados, session, archivo, guardado, resto>>

(* index(), lines 157-167: the three float() calls, in order *)

OrdenCampos == <<"temperatura", "humedad", "viento">>

CamposMalos(form) ==
    {k \in 1 .. Len(OrdenCampos) :
        \/ OrdenCampos[k] \notin DOMAIN form
        \/ form[OrdenCampos[k]].tipo # "num"}

\* float(None) raises TypeError, float of non-numeric text ValueError
ErrorDeConversion(form) ==
    IF CamposMalos(form) = {} THEN "None"
    ELSE IF OrdenCampos[Menor(CamposMalos(form))] \notin DOMAIN form
    THEN "TypeError"
    ELSE "ValueError"

Float(campo) == campo.v

ConvertirFormulario(t) ==
    /\ pc[t] = "post"
    /\ LET form == peticion[t].form
           error == ErrorDeConversion(form) IN
       IF error = "None"
       THEN /\ datos_entrada' = [datos_entrada EXCEPT ![t] =
                                   [clave \in ClavesHechos |-> Float(form[clave])]]
            /\ pc' = [pc EXCEPT ![t] = "inferir"]
            /\ UNCHANGED respuesta
       ELSE IF error = "ValueError"
       THEN \* lines 165-167
            /\ respuesta' = [respuesta EXCEPT ![t] = "redirect: error numeros validos"]
            /\ pc' = [pc EXCEPT ![t] = "fin"]
            /\ UNCHANGED datos_entrada
       ELSE \* no handler catches TypeError
            /\ respuesta' = [respuesta EXCEPT ![t] = "500 TypeError"]
            /\ pc' = [pc EXCEPT ![t] = "fin"]
            /\ UNCHANGED datos_entrada
    /\ UNCHANGED <<REGLAS, peticion, resultado, db, sig_id, insertados,
                   session, cargadas, archivo, guardado, resto>>

(* guardar_diagnostico, lines 99-115, and index(), lines 173-182 *)

\* lines 107-114; the fecha column (datetime.now()) is left out
FilaConAccion(id, datos, res) ==
    [id |-> id, temperatura |-> datos["temperatura"],
     humedad |-> datos["humedad"], viento |-> datos["viento"],
     nivel_riesgo |-> res.nivel, justificacion |-> res.accion]

Fila(id, datos, res) ==
    [id |-> id, temperatura |-> datos["temperatura"],
     humedad |-> datos["humedad"], viento |-> datos["viento"],
     nivel_riesgo |-> res.nivel, justificacion |-> res.justificacion]

\* the INSERT commits; then lines 176-182
GuardarDiagnostico(t) ==
    /\ pc[t] = "devuelto"
    /\ db' = Append(db, Fila(sig_id, datos_entrada[t], resultado[t]))
    /\ sig_id' = sig_id + 1
    /\ insertados' = Append(insertados, [datos_entrada |-> datos_entrada[t],
                                         resultado |-> resultado[t]])
    /\ guardado' = [guardado EXCEPT ![t] = "ok"]
    /\ session' = [last_result |-> resultado[t],
                   last_inputs |-> datos_entrada[t]]
    /\ respuesta' = [respuesta EXCEPT ![t] = "redirect: diagnostico guardado"]
    /\ pc' = [pc EXCEPT ![t] = "fin"]
    /\ UNCHANGED <<REGLAS, peticion, datos_entrada, resultado, cargadas,
                   archivo, resto>>

\* sqlite3 raises (no table, locked or read-only database, full disk);
\* index() has no handler around line 173
GuardarFalla(t) ==
    /\ pc[t] = "devuelto"
    /\ guardado' = [guardado EXCEPT ![t] = "fallo"]
    /\ respuesta' = [respuesta EXCEPT ![t] = "500 sqlite3.Error"]
    /\ pc' = [pc EXCEPT ![t] = "fin"]
    /\ UNCHANGED <<REGLAS, peticion, datos_entrada, resultado, db, sig_id,
                   insertados, session, cargadas, archivo, resto>>

(* obtener_diagnosticos, lines 117-122, and contar_registros, 126-131 *)

\* ORDER BY id DESC
RECURSIVE PorIdAscendente(_)
PorIdAscendente(filas) ==
    IF filas = {} THEN << >>
    ELSE LET f == CHOOSE x \in filas : \A y \in filas : x.id <= y.id
         IN <<f>> \o PorIdAscendente(filas \ {f})

RECURSIVE PorIdDescendente(_)
PorIdDescendente(filas) ==
    IF filas = {} THEN << >>
    ELSE LET f == CHOOSE x \in filas : \A y \in filas : x.id >= y.id
         IN <<f>> \o PorIdDescendente(filas \ {f})

\* SELECT fecha, temperatura, humedad, viento, nivel_riesgo
Columnas(f) ==
    [temperatura |-> f.temperatura, humedad |-> f.humedad,
     viento |-> f.viento, nivel_riesgo |-> f.nivel_riesgo]

\* LIMIT 10
Limitar(s) == SubSeq(s, 1, Min(LIMITE, Len(s)))

FilasDe(tabla) == {tabla[k] : k \in 1 .. Len(tabla)}

obtener_diagnosticos(tabla) ==
    LET s == Limitar(PorIdDescendente(FilasDe(tabla)))
    IN [k \in 1 .. Len(s) |-> Columnas(s[k])]

\* index(), line 189
ObtenerDiagnosticos(t) ==
    /\ pc[t] = "get"
    /\ registros' = [registros EXCEPT ![t] = obtener_diagnosticos(db)]
    /\ pc' = [pc EXCEPT ![t] = "contar"]
    /\ UNCHANGED <<REGLAS, peticion, datos_entrada, resultado, respuesta, db,
                   sig_id, insertados, session, cargadas, archivo, guardado,
                   hechos, iter, idx, evaluadas, total_registros, tope>>

\* index(), lines 190-197
ContarRegistros(t) ==
    /\ pc[t] = "contar"
    /\ total_registros' = [total_registros EXCEPT ![t] = Len(db)]
    /\ respuesta' = [respuesta EXCEPT ![t] = "200 index.html"]
    /\ pc' = [pc EXCEPT ![t] = "fin"]
    /\ UNCHANGED <<REGLAS, peticion, datos_entrada, resultado, db, sig_id,
                   insertados, session, cargadas, archivo, guardado,
                   hechos, iter, idx, evaluadas, registros, tope>>

(* eliminar_historial, lines 135-148 *)

\* DELETE FROM diagnosticos
TablaTrasBorrarUltimos(tabla) ==
    SubSeq(tabla, 1, Len(tabla) - Min(LIMITE, Len(tabla)))

TablaTrasBorrar(tabla) == << >>

EliminarHistorial(t) ==
    /\ pc[t] = "eliminar"
    /\ db' = TablaTrasBorrar(db)
    /\ insertados' = << >>
    /\ respuesta' = [respuesta EXCEPT ![t] = "redirect: historial eliminado"]
    /\ pc' = [pc EXCEPT ![t] = "fin"]
    /\ UNCHANGED <<REGLAS, peticion, datos_entrada, resultado, sig_id,
                   session, cargadas, archivo, guardado, resto>>

\* lines 144-145: sqlite3 raised, the handler flashes the error
EliminarFalla(t) ==
    /\ pc[t] = "eliminar"
    /\ respuesta' = [respuesta EXCEPT ![t] = "redirect: error al eliminar"]
    /\ pc' = [pc EXCEPT ![t] = "fin"]
    /\ UNCHANGED <<REGLAS, peticion, datos_entrada, resultado, db, sig_id,
                   insertados, session, cargadas, archivo, guardado, resto>>

\* the response is sent; the thread's frame is gone
Terminar(t) ==
    /\ pc[t] = "fin"
    /\ pc' = [pc EXCEPT ![t] = "libre"]
    /\ peticion' = [peticion EXCEPT ![t] = SinPeticion]
    /\ datos_entrada' = [datos_entrada EXCEPT ![t] = << >>]
    /\ hechos' = [hechos EXCEPT ![t] = << >>]
    /\ iter' = [iter EXCEPT ![t] = << >>]
    /\ idx' = [idx EXCEPT ![t] = 0]
    /\ evaluadas' = [evaluadas EXCEPT ![t] = << >>]
    /\ resultado' = [resultado EXCEPT ![t] = Ninguno]
    /\ respuesta' = [respuesta EXCEPT ![t] = "None"]
    /\ guardado' = [guardado EXCEPT ![t] = "None"]
    /\ registros' = [registros EXCEPT ![t] = << >>]
    /\ total_registros' = [total_registros EXCEPT ![t] = 0]
    /\ UNCHANGED <<REGLAS, db, sig_id, insertados, session, cargadas,
                   archivo, tope>>

(* The application served by the threads Hilos, the rule file changing     *)
(* under it.                                                               *)

Init ==
    /\ InitComun
    /\ REGLAS = << >>
    /\ cargadas = {}
    /\ archivo \in Archivos
    /\ tope = MaxInserciones
    /\ pc = [t \in Hilos |-> "libre"]
    /\ datos_entrada = [t \in Hilos |-> << >>]

Next ==
    \/ \E a \in Archivos : CambiarArchivo(a)
    \/ \E t \in Hilos :
          \/ \E p \in Peticiones : Recibir(t, p)
          \/ cargar_reglas(t)
          \/ ConvertirFormulario(t)
          \/ IniciarInferencia(t)
          \/ EvaluarRegla(t)
          \/ SinCoincidencia(t)
          \/ GuardarDiagnostico(t)
          \/ GuardarFalla(t)
          \/ ObtenerDiagnosticos(t)
          \/ ContarRegistros(t)
          \/ EliminarHistorial(t)
          \/ EliminarFalla(t)
          \/ Terminar(t)

Spec == Init /\ [][Next]_vars

(* One client at a time, the rule file fixed: the history of diagnoses.    *)

InitHistorial ==
    /\ InitComun
    /\ REGLAS = << >>
    /\ cargadas = {}
    /\ archivo \in ArchivosHistorial
    /\ tope = LIMITE + MaxExceso
    /\ pc = [t \in Hilos |-> "libre"]
    /\ datos_entrada = [t \in Hilos |-> << >>]

NextHistorial ==
    \/ \E p \in PeticionesHistorial : Recibir("h1", p)
    \/ cargar_reglas("h1")
    \/ ConvertirFormulario("h1")
    \/ IniciarInferencia("h1")
    \/ EvaluarRegla("h1")
    \/ SinCoincidencia("h1")
    \/ GuardarDiagnostico("h1")
    \/ GuardarFalla("h1")
    \/ ObtenerDiagnosticos("h1")
    \/ ContarRegistros("h1")
    \/ EliminarHistorial("h1")
    \/ EliminarFalla("h1")
    \/ Terminar("h1")

SpecHistorial == InitHistorial /\ [][NextHistorial]_vars

----------------------------------------------------------------------------
(* What the specification says of the engine, stated without the code's    *)
(* counters.                                                               *)

Compara(a, op, b) ==
    \/ op = ">=" /\ a >= b
    \/ op = ">" /\ a > b
    \/ op = "<=" /\ a <= b
    \/ op = "<" /\ a < b
    \/ op = "==" /\ a = b

Coincide(regla, h) ==
    \A v \in DOMAIN regla.condiciones :
        /\ v \in DOMAIN h
        /\ Compara(h[v], regla.condiciones[v].operador, regla.condiciones[v].valor)

IndicesCoincidentes(lista, h) ==
    {k \in 1 .. Len(lista) : Coincide(lista[k], h)}

TextoActivada == "Se activo la regla ID"

EsResultadoDe(res, regla) ==
    /\ res.nivel = regla.resultado
    /\ res.accion = regla.accion
    /\ res.justificacion.texto = TextoActivada
    /\ res.justificacion.id = regla.id
    /\ res.justificacion.nombre = regla.nombre

\* the call of thread t returned because the k-th rule it evaluated matched
Activada(t, k) ==
    /\ pc[t] = "devuelto"
    /\ k = Len(evaluadas[t])
    /\ resultado[t].justificacion.texto = TextoActivada

TieneOperadorDesconocido(regla) ==
    \E v \in DOMAIN regla.condiciones :
        regla.condiciones[v].operador \notin OperadoresConocidos

Devuelto(t) == pc[t] = "devuelto"

(* C1: when two or more rules of the list fully match the facts, the call  *)
(* returns the level, action and rationale of the matching rule of lowest  *)
(* index, and has evaluated no rule after that one.                        *)
PrimeraCoincidenciaGana ==
    \A t \in Hilos :
        (Devuelto(t)
            /\ Cardinality(IndicesCoincidentes(iter[t], hechos[t])) >= 2)
        => LET k == Menor(IndicesCoincidentes(iter[t], hechos[t])) IN
           /\ EsResultadoDe(resultado[t], iter[t][k])
           /\ Len(evaluadas[t]) = k
           /\ evaluadas[t] = SubSeq(iter[t], 1, k)

\* a call returned on a list whose two rules both match, the second one
\* with a condition of its own
TestigoPrimeraCoincidencia ==
    \E t \in Hilos :
        /\ Devuelto(t)
        /\ IndicesCoincidentes(iter[t], hechos[t]) = {1, 2}
        /\ DOMAIN iter[t][1].condiciones # {}
        /\ DOMAIN iter[t][2].condiciones # {}
        /\ resultado[t].nivel = Niveles[1]

(* C2: the level of a returned Outcome is a result label declared by a     *)
(* rule of the list or the default label ("NO CLASIFICADO", the            *)
(* specification's UNCLASSIFIED), and is never absent.                     *)
NivelDeclaradoOPorDefecto ==
    \A t \in Hilos :
        Devuelto(t)
        => /\ resultado[t].nivel
                \in {iter[t][k].resultado : k \in 1 .. Len(iter[t])}
                     \cup {"NO CLASIFICADO"}
           /\ resultado[t].nivel # Ninguno.nivel

\* a call returned the default level after scanning a non-empty list
TestigoNivelPorDefecto ==
    \E t \in Hilos :
        /\ Devuelto(t)
        /\ Len(iter[t]) >= 1
        /\ Len(evaluadas[t]) = Len(iter[t])
        /\ resultado[t].nivel = "NO CLASIFICADO"

(* C4: a rule is taken as matching exactly when every condition it         *)
(* declares names a key of the facts and its comparison holds; so a rule   *)
(* with a condition on a variable that is no key of the facts never        *)
(* matches and a rule with no condition always does.                       *)
CoincideSiiTodasLasCondiciones ==
    \A t \in Hilos :
        (pc[t] \in {"reglas", "devuelto"})
        => \A k \in 1 .. Len(evaluadas[t]) :
              /\ Activada(t, k) <=> Coincide(evaluadas[t][k], hechos[t])
              /\ ~ (DOMAIN evaluadas[t][k].condiciones \subseteq ClavesHechos)
                    => ~ Activada(t, k)
              /\ DOMAIN evaluadas[t][k].condiciones = {} => Activada(t, k)

\* a rule whose condition on temperatura holds and whose other condition is
\* on presion was passed over, and the rule with no condition after it fired
TestigoVariableAusente ==
    \E t \in Hilos :
        /\ Devuelto(t)
        /\ Len(evaluadas[t]) = 2
        /\ DOMAIN evaluadas[t][1].condiciones = {"temperatura", "presion"}
        /\ Compara(hechos[t]["temperatura"],
                   evaluadas[t][1].condiciones["temperatura"].operador,
                   evaluadas[t][1].condiciones["temperatura"].valor)
        /\ DOMAIN evaluadas[t][2].condiciones = {}
        /\ Activada(t, 2)

(* C5: a condition whose operator is none of >=, >, <=, <, == is not       *)
(* satisfied whatever the fact and the threshold, and raises nothing: a    *)
(* rule with such a condition never matches and the scan goes on to the    *)
(* next rule.                                                              *)
OperadorDesconocidoNoSatisface ==
    \A t \in Hilos :
        /\ respuesta[t] # "500 KeyError"
        /\ (pc[t] \in {"reglas", "devuelto"})
           => \A k \in 1 .. Len(evaluadas[t]) :
                 TieneOperadorDesconocido(evaluadas[t][k])
                 => /\ ~ Activada(t, k)
                    /\ (Devuelto(t) /\ k < Len(iter[t]))
                          => Len(evaluadas[t]) > k

\* the only condition of the first rule is on temperatura with operator !=,
\* the reading differs from the threshold, and the scan went on to rule 2
TestigoOperadorDesconocido ==
    \E t \in Hilos :
        /\ Devuelto(t)
        /\ Len(evaluadas[t]) = 2
        /\ DOMAIN evaluadas[t][1].condiciones = {"temperatura"}
        /\ evaluadas[t][1].condiciones["temperatura"].operador = "!="
        /\ hechos[t]["temperatura"] # evaluadas[t][1].condiciones["temperatura"].valor
        /\ Activada(t, 2)

----------------------------------------------------------------------------
(* What the specification says of the application.                         *)

EsPorDefecto(res) ==
    /\ res.nivel = "NO CLASIFICADO"
    /\ res.accion = "El nivel de riesgo no se ajusta a las reglas existentes. Mantener monitoreo."
    /\ res.justificacion.texto = "Ninguna regla de la Base de Conocimiento cumplio todas las condiciones."

(* C3: when the rule file is missing, cargar_reglas leaves REGLAS empty    *)
(* and raises nothing, also after an earlier load left rules in it; and a  *)
(* call of inferir_riesgo that finds REGLAS empty returns the default      *)
(* Outcome whatever the facts.                                             *)
FuenteAusenteDaPorDefecto ==
    /\ [](\A t \in Hilos : (Devuelto(t) /\ iter[t] = << >>)
                               => EsPorDefecto(resultado[t]))
    /\ [][\A t \in Hilos :
            (pc[t] = "cargar" /\ pc'[t] # "cargar" /\ ~ archivo.existe)
            => /\ REGLAS' = << >>
               /\ pc'[t] \in {"post", "get"}
               /\ respuesta'[t] = "None"]_vars

\* rules had been loaded, the file went missing, and a call made on the
\* emptied store returned
TestigoFuenteAusente ==
    \E t \in Hilos :
        /\ Devuelto(t)
        /\ iter[t] = << >>
        /\ REGLAS = << >>
        /\ ~ archivo.existe
        /\ \E L \in cargadas : L # << >>

ReglaBienDefinida(regla) ==
    /\ {"condiciones", "resultado", "accion"} \subseteq DOMAIN regla
    /\ DOMAIN regla.condiciones # {}

(* C6: a rule source in which a rule lacks a non-empty condition mapping,  *)
(* a result label or an action is rejected whole at load: no rule of it    *)
(* becomes active in REGLAS.                                               *)
SoloReglasBienDefinidas ==
    \A k \in 1 .. Len(REGLAS) : ReglaBienDefinida(REGLAS[k])

FormularioValido(form) ==
    \A clave \in ClavesHechos :
        clave \in DOMAIN form /\ form[clave].tipo = "num"

(* C7: a POST with a reading that is not numeric or is missing ends as a   *)
(* validation error, the engine not called and nothing inserted for it.    *)
LecturaInvalidaEsErrorDeValidacion ==
    \A t \in Hilos :
        (pc[t] = "fin" /\ EsPost(peticion[t])
            /\ ~ FormularioValido(peticion[t].form))
        => /\ respuesta[t] = "redirect: error numeros validos"
           /\ hechos[t] = << >>
           /\ resultado[t] = Ninguno
           /\ guardado[t] = "None"

(* C8: when the INSERT of the diagnosis fails, the request ends with a     *)
(* recoverable error and its outcome is still delivered as last result.    *)
FalloDePersistenciaRecuperable ==
    \A t \in Hilos :
        (pc[t] = "fin" /\ guardado[t] = "fallo")
        => /\ respuesta[t] # "500 sqlite3.Error"
           /\ session.last_result = resultado[t]

(* C9: whatever loads run meanwhile, the rules an evaluation has scanned   *)
(* are the first rules, in order, of one list some finished load produced, *)
(* and all of that list when the scan ends without a match.                *)
EvaluacionSobreUnaCarga ==
    \A t \in Hilos :
        (pc[t] \in {"reglas", "devuelto", "fin"} /\ hechos[t] # << >>)
        => \E L \in cargadas :
              /\ Len(evaluadas[t]) <= Len(L)
              /\ evaluadas[t] = SubSeq(L, 1, Len(evaluadas[t]))
              /\ (pc[t] \in {"devuelto", "fin"} /\ EsPorDefecto(resultado[t]))
                    => evaluadas[t] = L

\* a scan is under way on a list that REGLAS no longer names
TestigoRecargaDuranteEvaluacion ==
    \E t \in Hilos :
        /\ pc[t] = "reglas"
        /\ idx[t] >= 1
        /\ idx[t] < Len(iter[t])
        /\ REGLAS # iter[t]
        /\ Len(REGLAS) > idx[t]
        /\ REGLAS[idx[t] + 1] # iter[t][idx[t] + 1]

FilaFiel(f, e) ==
    /\ f.temperatura = e.datos_entrada["temperatura"]
    /\ f.humedad = e.datos_entrada["humedad"]
    /\ f.viento = e.datos_entrada["viento"]
    /\ f.nivel_riesgo = e.resultado.nivel
    /\ f.justificacion = e.resultado.justificacion

(* C10: the table holds one row per POST completed since the last purge,   *)
(* in insertion order with growing ids, each with the readings, level and  *)
(* rationale of that evaluation; rows only get appended, or all removed by *)
(* the purge; the history read returns the min(10, n) newest rows, newest  *)
(* first.                                                                  *)
HistorialFiel ==
    /\ [](/\ Len(db) = Len(insertados)
          /\ \A k \in 1 .. Len(db) : FilaFiel(db[k], insertados[k])
          /\ \A j, k \in 1 .. Len(db) : j < k => db[j].id < db[k].id
          /\ \A t \in Hilos :
                pc[t] = "contar"
                => /\ Len(registros[t]) = Min(10, Len(db))
                   /\ \A k \in 1 .. Len(registros[t]) :
                         LET f == db[Len(db) - k + 1] IN
                         /\ registros[t][k].temperatura = f.temperatura
                         /\ registros[t][k].humedad = f.humedad
                         /\ registros[t][k].viento = f.viento
                         /\ registros[t][k].nivel_riesgo = f.nivel_riesgo)
    /\ [][\/ db' = db
          \/ Len(db') = Len(db) + 1 /\ SubSeq(db', 1, Len(db)) = db
          \/ db' = << >> /\ \E t \in Hilos : pc[t] = "eliminar"]_vars

\* the history is read when the table holds more rows than the read returns,
\* rows of two different evaluations among them
TestigoHistorialLargo ==
    \E t \in Hilos :
        /\ pc[t] = "contar"
        /\ Len(db) > 10
        /\ Len(registros[t]) = 10
        /\ \E j, k \in 1 .. Len(db) : db[j].nivel_riesgo # db[k].nivel_riesgo

====
